---- MODULE Spec2Model ----
(***************************************************************************)
(* Model of the rollout collector (dmlab2d/random_agent.py) and of the     *)
(* parallel dispatcher (dmlab2d/generation_script.py).                     *)
(*                                                                         *)
(* The simulation (dmlab2d.Environment) is an external library: it is      *)
(* modelled as a scripted environment that numbers its frames, may end an  *)
(* episode only at the step counts listed in TermPoints, and computes its  *)
(* reward from its seed, the frame and the submitted action.               *)
(* np.random.RandomState is modelled as a deterministic 16-bit additive    *)
(* stream seeded from the agent seed.                                      *)
(***************************************************************************)
EXTENDS Integers, Sequences, FiniteSets, TLC

----------------------------------------------------------------------------
(* Bounds of the model *)

\* how many episodes shorter than EnoughData steps the scripted environment
\* produces in one run
MaxShortEpisodes == 1
\* length of the short episode of the scripted environment
ShortLen == 2

\* largest --threads and --rollouts explored by the dispatcher
MaxThreads == 3
MaxRollouts == 3

(* Program constants *)

\* random_agent.py:145  if len(a_rollout) <= 1000
EnoughData == 1000
\* dm_env.StepType values stored by t_rollout (timestep.step_type.value)
FIRST == 0
MID == 1
LAST == 2
\* modulus and increment of the modelled RandomState stream
RngMod == 65536
RngStep == 40503
\* resolution of the modelled float64 samples (ticks per unit)
FloatRes == 4

None == <<>>
Some(x) == <<x>>

----------------------------------------------------------------------------
(* Inputs *)

\* action specs the environment may report (env.action_spec()), in iteration order
SpecMove == << [name |-> "MOVE", dtype |-> "int32", minimum |-> 0, maximum |-> 4] >>
SpecMixed ==
  << [name |-> "TURN", dtype |-> "float64", minimum |-> -1, maximum |-> 1],
     [name |-> "LOOK", dtype |-> "uint8", minimum |-> 0, maximum |-> 3],
     [name |-> "MOVE", dtype |-> "int32", minimum |-> -1, maximum |-> 1] >>
SpecNoMove == << [name |-> "MOVE", dtype |-> "uint8", minimum |-> 0, maximum |-> 4] >>
ActionSpecs == {SpecMove, SpecMixed, SpecNoMove}

\* values of --num_episodes, --observation, --scale, --env_seed and --agent_seed
NumEpisodes == {0, 1, 2}
Observations == {"WORLD.RGB", "WORLD.LAYER"}
Scales == {1, 2}
EnvSeeds == {0, 1}
AgentSeeds == {0, 1}

\* step counts at which the scripted environment may end an episode
TermPoints == {ShortLen, EnoughData - 1, EnoughData, EnoughData + 1}
MaxEpisodeLen == EnoughData + 1

VARIABLES
  \* args (main)
  env_seed, agent_seed, num_episodes, observation, scale, action_spec,
  \* environment (external)
  env_t, env_frame, env_state, env_short, env_resets,
  \* PyGameRandomAgent
  agent_actions, agent_scores, agent_scale, rng, draws, calls,
  \* _run locals
  pc, i, timestep, action, sampled,
  s_rollout, r_rollout, d_rollout, a_rollout, t_rollout,
  \* file system
  files, writes,
  \* history
  reset_frame, printed,
  \* generation_script.py: args, platform, main program, pool tasks, children
  rollouts, threads, platform, d_pc, rpt, tdirs, task, child, child_written, disk

argVars == <<env_seed, agent_seed, num_episodes, observation, scale, action_spec>>
envVars == <<env_t, env_frame, env_state, env_short, env_resets>>
agentVars == <<agent_actions, agent_scores, agent_scale, rng, draws, calls>>
bufVars == <<s_rollout, r_rollout, d_rollout, a_rollout, t_rollout>>
collVars == <<argVars, envVars, agentVars, bufVars, pc, i, timestep, action, sampled,
              files, writes, reset_frame, printed>>
dispVars == <<rollouts, threads, platform, d_pc, rpt, tdirs, task, child,
              child_written, disk>>
vars == <<collVars, dispVars>>

----------------------------------------------------------------------------
(* np.random.RandomState *)

RandomState(seed) == (seed * 7919 + 12345) % RngMod
RngNext(r) == (r + RngStep) % RngMod

\* random.randint(low, high): an integer of [low, high)
randint(r, low, high) == low + (r % (high - low))
\* random.uniform(low, high): a value of [low, high), in ticks of 1/FloatRes
uniform(r, low, high) == low * FloatRes + (r % ((high - low) * FloatRes))

\* variant: the upper bound is off by one
make_int32_distribution_wide(minimum, maximum, r) == randint(r, minimum, maximum + 2)

make_int32_distribution(minimum, maximum, r) == randint(r, minimum, maximum + 1)
make_float64_distribution(minimum, maximum, r) == uniform(r, minimum, maximum)

Supported(spec) == spec.dtype \in {"int32", "float64"}

\* PyGameRandomAgent.__init__: the samplers, one per supported channel
RECURSIVE MakeActions(_)
MakeActions(specs) ==
  IF specs = <<>> THEN <<>>
  ELSE IF Supported(Head(specs))
       THEN <<Head(specs)>> \o MakeActions(Tail(specs))
       ELSE MakeActions(Tail(specs))

Gen(a, r) ==
  IF a.dtype = "int32" THEN make_int32_distribution(a.minimum, a.maximum, r)
  ELSE make_float64_distribution(a.minimum, a.maximum, r)

ChannelNames(acts) == {acts[x].name : x \in 1..Len(acts)}
Channel(acts, nm) == acts[CHOOSE x \in 1..Len(acts) : acts[x].name = nm]
ChannelIndex(acts, nm) == CHOOSE x \in 1..Len(acts) : acts[x].name = nm

\* variant: every sampler draws from its own copy of the stream
SampleAllOwnStream(acts, r, acc) ==
  [rng |-> RngNext(r),
   action |-> [nm \in ChannelNames(acts) |-> Gen(Channel(acts, nm), RngNext(r))]]

\* variant: the random source is created anew from the seed at every call
SampleAllReseeded(acts, r, acc) ==
  [rng |-> (RandomState(agent_seed) + Len(acts) * RngStep) % RngMod,
   action |-> [nm \in ChannelNames(acts) |->
                 Gen(Channel(acts, nm),
                     (RandomState(agent_seed) + ChannelIndex(acts, nm) * RngStep) % RngMod)]]

\* {name: gen() for name, gen in self._actions}
RECURSIVE SampleAll(_, _, _)
SampleAll(acts, r, acc) ==
  IF acts = <<>> THEN [rng |-> r, action |-> acc]
  ELSE LET r1 == RngNext(r)
       IN SampleAll(Tail(acts), r1, (Head(acts).name :> Gen(Head(acts), r1)) @@ acc)

EmptyAction == [n \in {} |-> 0]

\* variant: the reward replaces the running score
StepScoresAssign(scores, ts) ==
  IF ts.reward # None
  THEN IF ts.reward[1] # 0
       THEN [scores EXCEPT ![Len(scores)] = ts.reward[1]]
       ELSE scores
  ELSE Append(scores, 0)

\* PyGameRandomAgent.step: the score bookkeeping
StepScores(scores, ts) ==
  IF ts.reward # None
  THEN IF ts.reward[1] # 0
       THEN [scores EXCEPT ![Len(scores)] = @ + ts.reward[1]]
       ELSE scores
  ELSE Append(scores, 0)

----------------------------------------------------------------------------
(* The scripted environment *)

EnvReward(seed, frame, act) ==
  IF (seed + frame + (IF "MOVE" \in DOMAIN act THEN act["MOVE"] ELSE 0)) % 3 = 0
  THEN 1 ELSE 0

\* env.reset(): the first timestep of a fresh episode (reward and discount None)
ResetTimestep(frame) ==
  [step_type |-> FIRST, reward |-> None, discount |-> None,
   observation |-> (observation :> frame)]

\* env.step(action): a MID timestep, or the LAST one when the episode ends
StepTimestep(frame, act, last) ==
  [step_type |-> IF last THEN LAST ELSE MID,
   reward |-> Some(EnvReward(env_seed, frame, act)),
   discount |-> Some(IF last THEN 0 ELSE 1),
   observation |-> (observation :> frame)]

\* may / must the episode end at its t-th step
CanEnd(t) ==
  /\ t \in TermPoints
  /\ t < EnoughData => env_short < MaxShortEpisodes
MustEnd(t) == t >= MaxEpisodeLen

EnvReset ==
  /\ env_t' = 0
  /\ env_frame' = env_frame + 1
  /\ env_state' = "running"
  /\ timestep' = ResetTimestep(env_frame + 1)
  /\ reset_frame' = env_frame + 1
  /\ env_resets' = env_resets + 1
  /\ UNCHANGED env_short

----------------------------------------------------------------------------
(* _run *)

\* variant: the directory is named after the agent seed
PathByAgentSeed(seed, idx) == [thread |-> agent_seed, rollout |-> idx]

\* join(".../thread_{}".format(args.env_seed), 'rollout_{}'.format(i))
Path(seed, idx) == [thread |-> seed, rollout |-> idx]

\* variant: the entry appended at the terminal step is not saved
ArchiveNoLastAction ==
  [observations |-> s_rollout, rewards |-> r_rollout, discounts |-> d_rollout,
   actions |-> SubSeq(a_rollout, 1, Len(a_rollout) - 1), terminals |-> t_rollout]

\* the arrays handed to np.savez
Archive == [observations |-> s_rollout, rewards |-> r_rollout,
            discounts |-> d_rollout, actions |-> a_rollout,
            terminals |-> t_rollout]

savez(fs, path, arch) ==
  [p \in DOMAIN fs \cup {path} |-> IF p = path THEN arch ELSE fs[p]]

\* lines 124-128
ClearBuffers ==
  /\ s_rollout' = <<>>
  /\ r_rollout' = <<>>
  /\ d_rollout' = <<>>
  /\ a_rollout' = <<>>
  /\ t_rollout' = <<>>

\* variant: the observations of the discarded episode are kept
DiscardBuffersKeepFrames ==
  /\ s_rollout' = s_rollout
  /\ r_rollout' = <<>>
  /\ d_rollout' = <<>>
  /\ a_rollout' = <<>>
  /\ t_rollout' = <<>>

\* variant: the actions of the discarded episode are kept
DiscardBuffersKeepActions ==
  /\ s_rollout' = <<>>
  /\ r_rollout' = <<>>
  /\ d_rollout' = <<>>
  /\ a_rollout' = a_rollout
  /\ t_rollout' = <<>>

\* lines 149-153
DiscardBuffers ==
  /\ s_rollout' = <<>>
  /\ r_rollout' = <<>>
  /\ d_rollout' = <<>>
  /\ a_rollout' = <<>>
  /\ t_rollout' = <<>>

\* variant: the last frame is recorded as well
RecordLastWithFrame ==
  /\ a_rollout' = Append(a_rollout, action["MOVE"])
  /\ s_rollout' = Append(s_rollout, timestep.observation["WORLD.RGB"])
  /\ UNCHANGED <<r_rollout, d_rollout, t_rollout>>

\* variant: the action sampled at the terminal step is the one recorded
RecordLastFresh ==
  /\ a_rollout' = Append(a_rollout, sampled'["MOVE"])
  /\ UNCHANGED <<s_rollout, r_rollout, d_rollout, t_rollout>>

\* line 143: a_rollout += [action["MOVE"]]
RecordLast ==
  /\ a_rollout' = Append(a_rollout, action["MOVE"])
  /\ UNCHANGED <<s_rollout, r_rollout, d_rollout, t_rollout>>

\* if len(a_rollout) <= 1000
NotEnoughData(a) == Len(a) <= EnoughData

\* the dispatcher is not running
DispIdle ==
  /\ rollouts = 0 /\ threads = 0 /\ platform = "posix" /\ d_pc = "idle" /\ rpt = 0
  /\ tdirs = {} /\ task = <<>> /\ child = <<>> /\ child_written = <<>>
  /\ disk = [p \in {} |-> 0]

\* no call has been made yet on the environment, the agent or the file system
CollFresh ==
  /\ env_t = 0 /\ env_frame = 0 /\ env_state = "created" /\ env_short = 0
  /\ env_resets = 0
  /\ agent_actions = <<>> /\ agent_scores = <<>> /\ agent_scale = 0
  /\ rng = 0 /\ draws = 0 /\ calls = 0
  /\ i = 0
  /\ timestep = ResetTimestep(0)
  /\ action = EmptyAction /\ sampled = EmptyAction
  /\ s_rollout = <<>> /\ r_rollout = <<>> /\ d_rollout = <<>>
  /\ a_rollout = <<>> /\ t_rollout = <<>>
  /\ files = [p \in {} |-> 0] /\ writes = <<>>
  /\ reset_frame = 0 /\ printed = None

\* main() of random_agent.py has parsed its flags and calls _run(args)
Init ==
  /\ DispIdle
  /\ env_seed \in EnvSeeds
  /\ agent_seed \in AgentSeeds
  /\ num_episodes \in NumEpisodes
  /\ observation \in Observations
  /\ scale \in Scales
  /\ action_spec \in ActionSpecs
  /\ pc = "start"
  /\ CollFresh

\* lines 118-120: env = _create_environment(args); agent = PyGameRandomAgent(...)
CreateAgent ==
  /\ pc = "start"
  /\ agent_actions' = MakeActions(action_spec)
  /\ agent_scores' = <<>>
  /\ agent_scale' = scale
  /\ rng' = RandomState(agent_seed)
  /\ draws' = 0
  /\ calls' = 0
  /\ pc' = "for"
  /\ UNCHANGED <<dispVars, argVars, envVars, bufVars, i, timestep, action, sampled,
                 files, writes, reset_frame, printed>>

\* lines 121-130: the next requested episode begins
ForEpisode ==
  /\ pc = "for"
  /\ i < num_episodes
  /\ EnvReset
  /\ ClearBuffers
  /\ pc' = "while"
  /\ UNCHANGED <<dispVars, argVars, agentVars, i, action, sampled, files, writes, printed>>

\* lines 131-140: one iteration of the while loop up to the test of timestep.last()
WhileStep ==
  /\ pc = "while"
  /\ \E last \in BOOLEAN :
       /\ last => CanEnd(env_t + 1)
       /\ MustEnd(env_t + 1) => last
       /\ LET smp == SampleAll(agent_actions, rng, EmptyAction)
              act == smp.action
              ts == StepTimestep(env_frame + 1, act, last)
              hasObs == "WORLD.RGB" \in DOMAIN ts.observation
              hasMove == "MOVE" \in DOMAIN act
          IN /\ agent_scores' = StepScores(agent_scores, timestep)
             /\ rng' = smp.rng
             /\ draws' = draws + Len(agent_actions)
             /\ calls' = calls + 1
             /\ action' = act
             /\ sampled' = act
             /\ env_t' = env_t + 1
             /\ env_frame' = env_frame + 1
             /\ env_state' = IF last THEN "ended" ELSE "running"
             /\ env_short' = IF last /\ env_t + 1 < EnoughData
                             THEN env_short + 1 ELSE env_short
             /\ env_resets' = env_resets
             /\ timestep' = ts
             /\ s_rollout' = IF hasObs THEN Append(s_rollout, ts.observation["WORLD.RGB"])
                             ELSE s_rollout
             /\ r_rollout' = IF hasObs THEN Append(r_rollout, ts.reward[1]) ELSE r_rollout
             /\ d_rollout' = IF hasObs THEN Append(d_rollout, ts.discount[1]) ELSE d_rollout
             /\ a_rollout' = IF hasObs /\ hasMove THEN Append(a_rollout, act["MOVE"])
                             ELSE a_rollout
             /\ t_rollout' = IF hasObs /\ hasMove THEN Append(t_rollout, ts.step_type)
                             ELSE t_rollout
             /\ pc' = IF ~(hasObs /\ hasMove) THEN "crashed"
                      ELSE IF last THEN "last" ELSE "while"
  /\ UNCHANGED <<dispVars, argVars, agent_actions, agent_scale, i, files, writes, reset_frame, printed>>

\* lines 141-143: agent.step(timestep); a_rollout += [action["MOVE"]]
ObserveLast ==
  /\ pc = "last"
  /\ LET smp == SampleAll(agent_actions, rng, EmptyAction)
     IN /\ agent_scores' = StepScores(agent_scores, timestep)
        /\ rng' = smp.rng
        /\ draws' = draws + Len(agent_actions)
        /\ calls' = calls + 1
        /\ sampled' = smp.action
  /\ RecordLast
  /\ pc' = "check"
  /\ UNCHANGED <<dispVars, argVars, envVars, agent_actions, agent_scale, i, timestep, action,
                 files, writes, reset_frame, printed>>

\* variant: the loop goes on after a short episode without env.reset()
DiscardNoReset ==
  /\ pc = "check"
  /\ NotEnoughData(a_rollout)
  /\ DiscardBuffers
  /\ pc' = "while"
  /\ UNCHANGED <<dispVars, argVars, envVars, agentVars, i, timestep, action, sampled,
                 files, writes, reset_frame, printed>>

\* lines 145-153: the episode is too short: reset and start over
Discard ==
  /\ pc = "check"
  /\ NotEnoughData(a_rollout)
  /\ EnvReset
  /\ DiscardBuffers
  /\ pc' = "while"
  /\ UNCHANGED <<dispVars, argVars, agentVars, i, action, sampled, files, writes, printed>>

\* lines 154-167: the episode is kept: write the archive and leave the while loop
Flush ==
  /\ pc = "check"
  /\ ~NotEnoughData(a_rollout)
  /\ files' = savez(files, Path(env_seed, i), Archive)
  /\ writes' = Append(writes, Path(env_seed, i))
  /\ i' = i + 1
  /\ pc' = "for"
  /\ UNCHANGED <<dispVars, argVars, envVars, agentVars, bufVars, timestep, action, sampled,
                 reset_frame, printed>>

\* variant: the run returns without printing the scores
FinishNoPrint ==
  /\ pc = "for"
  /\ i >= num_episodes
  /\ pc' = "done"
  /\ UNCHANGED <<dispVars, argVars, envVars, agentVars, bufVars, i, timestep, action, sampled,
                 files, writes, reset_frame, printed>>

\* lines 169-171: agent.print_stats()
Finish ==
  /\ pc = "for"
  /\ i >= num_episodes
  /\ printed' = Some(agent_scores)
  /\ pc' = "done"
  /\ UNCHANGED <<dispVars, argVars, envVars, agentVars, bufVars, i, timestep, action, sampled,
                 files, writes, reset_frame>>

Next ==
  \/ CreateAgent
  \/ ForEpisode
  \/ WhileStep
  \/ ObserveLast
  \/ Discard
  \/ Flush
  \/ Finish

Spec == Init /\ [][Next]_vars

\* a run with the default seeds and render scale (main, lines 184-191)
InitDefaultSeeds == Init /\ env_seed = 0 /\ agent_seed = 0 /\ scale = 1

\* _run is a sequential program: it takes its next step as long as it has one
SpecFair == InitDefaultSeeds /\ [][Next]_vars /\ WF_vars(Next)

----------------------------------------------------------------------------
(* generation_script.py *)

\* random_agent.py main(): the defaults of the flags
Defaults == [level_name |-> "clean_up", observation |-> "WORLD.RGB",
             env_seed |-> 0, agent_seed |-> 0, num_episodes |-> 1, scale |-> 1]

\* _threaded_generation: the flags of python_cmd after "--"
python_cmd(args_rollouts, quota, k) ==
  [level_name |-> "chase_eat", num_episodes |-> args_rollouts]

\* parser.parse_args(): a flag given on the command line overrides its default
parse_args(flags) == flags @@ Defaults

\* call(python_cmd, shell=True): with a list and shell=True a POSIX shell runs
\* only the first item ("bazel") and takes the others as its own arguments, so
\* random_agent is not run; on Windows the list is joined into one command line.
RunsCollector(os) == os = "windows"

NoChild == [status |-> "none", args |-> Defaults, collector |-> FALSE, i |-> 0]

Spawn(os, flags) ==
  [status |-> "running", args |-> parse_args(flags),
   collector |-> RunsCollector(os), i |-> 0]

Threads == DOMAIN task

\* the collector is not running
CollIdle ==
  /\ env_seed = 0 /\ agent_seed = 0 /\ num_episodes = 0
  /\ observation = "WORLD.RGB" /\ scale = 1 /\ action_spec = SpecMove
  /\ pc = "idle"
  /\ CollFresh

DispInit ==
  /\ CollIdle
  /\ rollouts \in 0..MaxRollouts
  /\ threads \in 0..MaxThreads
  /\ platform \in {"posix", "windows"}
  /\ d_pc = "main" /\ rpt = 0
  /\ tdirs = {} /\ task = <<>> /\ child = <<>> /\ child_written = <<>>
  /\ disk = [p \in {} |-> 0]

\* lines 46-49: rpt = args.rollouts // args.threads + 1; Pool(...).starmap(...)
Main ==
  /\ d_pc = "main"
  /\ IF threads = 0
     THEN /\ d_pc' = "crashed"
          /\ UNCHANGED <<rpt, task, child, child_written>>
     ELSE /\ rpt' = (rollouts \div threads) + 1
          /\ task' = [k \in 0..(threads - 1) |-> [state |-> "queued", result |-> None]]
          /\ child' = [k \in 0..(threads - 1) |-> NoChild]
          /\ child_written' = [k \in 0..(threads - 1) |-> {}]
          /\ d_pc' = "pool"
  /\ UNCHANGED <<collVars, rollouts, threads, platform, tdirs, disk>>

\* lines 10-30: a pool worker takes task k, creates tdir and starts the child
ThreadedGeneration(k) ==
  /\ d_pc = "pool"
  /\ task[k].state = "queued"
  /\ tdirs' = tdirs \cup {k}
  /\ child' = [child EXCEPT ![k] = Spawn(platform, python_cmd(rollouts, rpt, k))]
  /\ task' = [task EXCEPT ![k].state = "called"]
  /\ UNCHANGED <<collVars, rollouts, threads, platform, d_pc, rpt, child_written, disk>>

\* random_agent.py lines 121, 158-165 in child k: its next kept episode is written
ChildRollout(k) ==
  /\ d_pc = "pool"
  /\ child[k].status = "running"
  /\ child[k].collector
  /\ child[k].i < child[k].args.num_episodes
  /\ LET path == Path(child[k].args.env_seed, child[k].i)
     IN /\ disk' = savez(disk, path, k)
        /\ child_written' = [child_written EXCEPT ![k] = @ \cup {path}]
  /\ child' = [child EXCEPT ![k].i = @ + 1]
  /\ UNCHANGED <<collVars, rollouts, threads, platform, d_pc, rpt, tdirs, task>>

\* child k ends normally
ChildExit(k) ==
  /\ d_pc = "pool"
  /\ child[k].status = "running"
  /\ child[k].collector => child[k].i >= child[k].args.num_episodes
  /\ child' = [child EXCEPT ![k].status = "exited"]
  /\ UNCHANGED <<collVars, rollouts, threads, platform, d_pc, rpt, tdirs, task,
                 child_written, disk>>

\* child k fails or crashes
ChildCrash(k) ==
  /\ d_pc = "pool"
  /\ child[k].status = "running"
  /\ child' = [child EXCEPT ![k].status = "crashed"]
  /\ UNCHANGED <<collVars, rollouts, threads, platform, d_pc, rpt, tdirs, task,
                 child_written, disk>>

\* variant: the worker reports whether its child ended normally
CallReturnsStatus(k) ==
  /\ d_pc = "pool"
  /\ task[k].state = "called"
  /\ child[k].status \in {"exited", "crashed"}
  /\ task' = [task EXCEPT ![k] = [state |-> "returned",
                                  result |-> Some(child[k].status = "exited")]]
  /\ UNCHANGED <<collVars, rollouts, threads, platform, d_pc, rpt, tdirs, child,
                 child_written, disk>>

\* lines 30-32: call() returns whatever the exit status; return True
CallReturns(k) ==
  /\ d_pc = "pool"
  /\ task[k].state = "called"
  /\ child[k].status \in {"exited", "crashed"}
  /\ task' = [task EXCEPT ![k] = [state |-> "returned", result |-> Some(TRUE)]]
  /\ UNCHANGED <<collVars, rollouts, threads, platform, d_pc, rpt, tdirs, child,
                 child_written, disk>>

\* variant: starmap returns as soon as every task has been taken by a worker
PoolJoinEarly ==
  /\ d_pc = "pool"
  /\ \A k \in Threads : task[k].state # "queued"
  /\ d_pc' = "done"
  /\ UNCHANGED <<collVars, rollouts, threads, platform, rpt, tdirs, task, child,
                 child_written, disk>>

\* lines 48-49: starmap returns once every task has returned
PoolJoin ==
  /\ d_pc = "pool"
  /\ \A k \in Threads : task[k].state = "returned"
  /\ d_pc' = "done"
  /\ UNCHANGED <<collVars, rollouts, threads, platform, rpt, tdirs, task, child,
                 child_written, disk>>

DispNext ==
  \/ Main
  \/ \E k \in Threads : ThreadedGeneration(k)
  \/ \E k \in Threads : ChildRollout(k)
  \/ \E k \in Threads : ChildExit(k)
  \/ \E k \in Threads : ChildCrash(k)
  \/ \E k \in Threads : CallReturns(k)
  \/ PoolJoin

SpecDispatcher == DispInit /\ [][DispNext]_vars

----------------------------------------------------------------------------
(* Properties of the collector (checked under Spec) *)

\* an archive has just been written (the for loop is about to go on)
JustFlushed == pc = "for" /\ i > 0 /\ Path(env_seed, i - 1) \in DOMAIN files
LastArchive == files[Path(env_seed, i - 1)]

\* the state of the stream of a seed after k draws, in closed form
RngAt(seed, k) == (RandomState(seed) + k * RngStep) % RngMod

\* the mapping returned by the j-th call of the policy, from the seed alone
PolicyAt(seed, acts, j) ==
  [nm \in ChannelNames(acts) |->
     Gen(Channel(acts, nm), RngAt(seed, (j - 1) * Len(acts) + ChannelIndex(acts, nm)))]

\* C1 (as stated): at a terminal step the buffer is written to an archive if and
\* only if it holds more than 1000 per-step entries; with 1000 or fewer the
\* episode is discarded, nothing is written and the episode index stays.
C1_PersistIffMoreThan1000Steps ==
  [][pc = "check" =>
       /\ (writes' # writes) <=> (Len(s_rollout) > EnoughData)
       /\ Len(s_rollout) <= EnoughData =>
            (files' = files /\ i' = i /\ pc' = "while")]_vars

\* C4: on a discard all five buffers are emptied, and an archive holds exactly
\* the entries of the steps taken since the most recent reset: its frames are
\* the frames that follow that reset, one reward, discount and step type per
\* frame (the step types MID up to the final LAST), and one more action.
C4_StateAfterFlush ==
  JustFlushed =>
    LET arch == LastArchive
        n == Len(arch.observations)
    IN /\ \A k \in 1..n : arch.observations[k] = reset_frame + k
       /\ Len(arch.rewards) = n /\ Len(arch.discounts) = n
       /\ Len(arch.terminals) = n /\ Len(arch.actions) = n + 1
       /\ \A k \in 1..n :
            /\ arch.terminals[k] = (IF k = n THEN LAST ELSE MID)
            /\ arch.discounts[k] = (IF k = n THEN 0 ELSE 1)
            /\ arch.rewards[k] =
                 EnvReward(env_seed, reset_frame + k, "MOVE" :> arch.actions[k])
C4_DiscardEmpties ==
  (pc = "check" /\ pc' = "while") =>
    /\ s_rollout' = <<>> /\ r_rollout' = <<>> /\ d_rollout' = <<>>
    /\ a_rollout' = <<>> /\ t_rollout' = <<>>
\* C4: both parts: every archive holds only entries of the steps since the last
\* reset, and every discard empties the five buffers.
C4_NoDiscardedEntryInArchive == []C4_StateAfterFlush /\ [][C4_DiscardEmpties]_vars
\* an archive has been written after an episode was discarded
C4_Witness ==
  /\ JustFlushed
  /\ Len(agent_scores) > i
  /\ LastArchive.observations[1] > 2

\* C5: a kept episode that ended after n > 1000 steps has exactly one archive,
\* with n observations, rewards, discounts and terminals and n + 1 actions.
C5_KeptEpisodeArchive ==
  (JustFlushed /\ env_t > EnoughData) =>
    /\ Len(writes) = i
    /\ Cardinality({k \in 1..Len(writes) : writes[k] = Path(env_seed, i - 1)}) = 1
    /\ Cardinality(DOMAIN files) = i
    /\ Len(LastArchive.observations) = env_t
    /\ Len(LastArchive.rewards) = env_t
    /\ Len(LastArchive.discounts) = env_t
    /\ Len(LastArchive.terminals) = env_t
    /\ Len(LastArchive.actions) = env_t + 1
\* num_episodes = 1 and the only episode ended after exactly 1001 steps
C5_Witness ==
  /\ JustFlushed /\ num_episodes = 1 /\ i = 1
  /\ env_t = EnoughData + 1 /\ env_frame = EnoughData + 2
  /\ Cardinality(DOMAIN files) = 1
  /\ Len(LastArchive.observations) = EnoughData + 1
  /\ Len(LastArchive.actions) = EnoughData + 2

\* C6 (as stated): at a terminal step one more action is sampled and applied to
\* the simulation (one more simulation step), and only an action is appended.
C6_ExtraActionApplied ==
  [][pc = "last" =>
       /\ calls' = calls + 1
       /\ env_frame' = env_frame + 1
       /\ Len(a_rollout') = Len(a_rollout) + 1
       /\ UNCHANGED <<s_rollout, r_rollout, d_rollout, t_rollout>>]_vars

\* C6 (amended): at a terminal step one more action is sampled from the policy
\* but is not applied: the simulation is not stepped; one action entry is
\* appended and no observation, reward, discount or step type.
C6_ExtraActionSampledNotApplied ==
  [][pc = "last" =>
       /\ calls' = calls + 1
       /\ draws' = draws + Len(agent_actions)
       /\ sampled' = PolicyAt(agent_seed, agent_actions, calls + 1)
       /\ UNCHANGED envVars
       /\ Len(a_rollout') = Len(a_rollout) + 1
       /\ UNCHANGED <<s_rollout, r_rollout, d_rollout, t_rollout>>]_vars
\* a terminal step has been handled
C6_Witness ==
  /\ pc = "check" /\ env_state = "ended"
  /\ timestep.step_type = LAST
  /\ Len(a_rollout) = Len(s_rollout) + 1

\* C8: the mapping returned by the j-th call of the policy is determined by the
\* agent seed, the action spec and j, whatever the environment returned; the
\* actions recorded in an archive are those of the calls made since the last
\* reset, so runs with the same agent seed and the same episode lengths record
\* the same actions.
C8_ActionsFromSeedAndIndex ==
  /\ (calls > 0 /\ pc # "idle") => sampled = PolicyAt(agent_seed, agent_actions, calls)
  /\ (pc = "while" /\ a_rollout # <<>>) =>
       a_rollout[Len(a_rollout)] = PolicyAt(agent_seed, agent_actions, calls)["MOVE"]
  /\ JustFlushed =>
       LET arch == LastArchive
           n == Len(arch.observations)
       IN \A k \in 1..n :
            arch.actions[k] =
              PolicyAt(agent_seed, agent_actions, calls - (n + 1) + k)["MOVE"]
\* an archive recorded after a discarded episode, under agent seed 1, scale 2
\* and a spec with several channels
C8_Witness ==
  /\ JustFlushed /\ agent_seed = 1 /\ agent_scale = 2 /\ Len(agent_actions) > 1
  /\ calls > Len(LastArchive.actions) + ShortLen

\* C9: every value sampled for an int32 channel lies within its bounds.
C9_Int32WithinBounds ==
  calls > 0 =>
    \A x \in 1..Len(agent_actions) :
      agent_actions[x].dtype = "int32" =>
        /\ agent_actions[x].name \in DOMAIN sampled
        /\ sampled[agent_actions[x].name] >= agent_actions[x].minimum
        /\ sampled[agent_actions[x].name] <= agent_actions[x].maximum
\* both endpoints have been sampled for MOVE, the maximum at a terminal step
C9_Witness ==
  /\ pc = "check"
  /\ \E x \in 1..Len(agent_actions) :
       /\ agent_actions[x].name = "MOVE"
       /\ sampled["MOVE"] = agent_actions[x].maximum
       /\ \E k \in 1..Len(a_rollout) : a_rollout[k] = agent_actions[x].minimum
       /\ \E k \in 1..Len(a_rollout) : a_rollout[k] = agent_actions[x].maximum

\* C10: the k-th archive written is the one of episode index k - 1, at the path
\* given by the environment seed and that index; a path is written once, a
\* finished run has written num_episodes archives, and an archive, once
\* written, is never changed.
C10_WritesInOrder ==
  /\ \A k \in 1..Len(writes) : writes[k] = [thread |-> env_seed, rollout |-> k - 1]
  /\ \A k, m \in 1..Len(writes) : k # m => writes[k] # writes[m]
  /\ DOMAIN files = {writes[k] : k \in 1..Len(writes)}
  /\ Len(writes) = i
  /\ pc = "done" => Len(writes) = num_episodes
C10_ArchivesImmutable ==
  /\ \A p \in DOMAIN files : p \in DOMAIN files' /\ files'[p] = files[p]
  /\ writes' # writes =>
       /\ writes' = Append(writes, [thread |-> env_seed, rollout |-> i])
       /\ [thread |-> env_seed, rollout |-> i] \notin DOMAIN files
\* C10: both parts: archives are written once each, in index order, at the path
\* of (environment seed, index), and no step changes a written archive.
C10_OneArchivePerIndex == []C10_WritesInOrder /\ [][C10_ArchivesImmutable]_vars
\* a run of two episodes has finished with its two archives
C10_Witness ==
  /\ pc = "done" /\ num_episodes = 2 /\ Len(writes) = 2
  /\ env_seed = 1 /\ agent_seed = 0
  /\ DOMAIN files = {[thread |-> 1, rollout |-> 0], [thread |-> 1, rollout |-> 1]}

----------------------------------------------------------------------------
(* Properties of the dispatcher (checked under SpecDispatcher) *)

Spawned(k) == child[k].status # "none"

\* C2: the sets of paths written by the children of two distinct thread
\* indices are disjoint.
C2_ChildrenWriteDisjointPaths ==
  \A j, k \in Threads : j # k => child_written[j] \cap child_written[k] = {}

\* C3: the quota is rpt = R // T + 1 and every child is asked for exactly rpt
\* episodes of the fixed level.
C3_ChildrenCollectQuota ==
  d_pc \in {"pool", "done"} =>
    /\ rpt = (rollouts \div threads) + 1
    /\ \A k \in Threads :
         Spawned(k) => /\ child[k].args.num_episodes = rpt
                       /\ child[k].args.level_name = "chase_eat"

\* C7: two children of one run that execute the collector differ in their
\* environment seed or in their agent seed.
C7_ChildrenSeedsDiffer ==
  \A j, k \in Threads :
    (j # k /\ Spawned(j) /\ Spawned(k) /\ child[j].collector /\ child[k].collector) =>
      \/ child[j].args.env_seed # child[k].args.env_seed
      \/ child[j].args.agent_seed # child[k].args.agent_seed

----------------------------------------------------------------------------
(* Termination of the collector (checked under SpecFair) *)

\* every episode begun reaches a terminal step
EpisodesEnd == [](env_state = "running" => <>(env_state = "ended"))

Finished ==
  /\ pc = "done"
  /\ Len(writes) = num_episodes
  /\ Cardinality(DOMAIN files) = num_episodes
  /\ printed = Some(agent_scores)

\* once the last requested archive is written: no reset, no step, no write
QuietAfterLastArchive ==
  (env_resets > 0 /\ Len(writes) >= num_episodes) =>
    UNCHANGED <<envVars, timestep, files, writes, bufVars>>

\* C11: if every episode reaches a terminal step (long episodes keep occurring:
\* the scripted environment produces at most MaxShortEpisodes short ones), a
\* run with num_episodes = N ends having written exactly N archives and
\* printed the scores, and nothing is reset, stepped or written after the
\* N-th archive.
C11_RunTerminates ==
  /\ EpisodesEnd => <>Finished
  /\ [](pc = "done" => Finished)
  /\ [][QuietAfterLastArchive]_vars
\* a run of two episodes, one of them after a discard, has returned
C11_Witness ==
  /\ Finished /\ num_episodes = 2 /\ env_resets = 3
  /\ printed = Some(agent_scores) /\ Len(agent_scores) = 3

----------------------------------------------------------------------------
(* The score list of the agent *)

\* the sum of q[lo..hi], by halves
RECURSIVE SumRange(_, _, _)
SumRange(q, lo, hi) ==
  IF lo > hi THEN 0
  ELSE IF lo = hi THEN q[lo]
  ELSE LET mid == (lo + hi) \div 2
       IN SumRange(q, lo, mid) + SumRange(q, mid + 1, hi)
SumSeq(q) == SumRange(q, 1, Len(q))

InEpisode == pc \in {"while", "last", "check"}
LastScore == agent_scores[Len(agent_scores)]
AllButLast(q) == SubSeq(q, 1, Len(q) - 1)

\* C12 as stated: at every point of an episode there is one slot per reset and
\* the last slot is the sum of the rewards of all the steps since the reset
C12_SlotPerResetAtEveryPoint ==
  InEpisode =>
    /\ Len(agent_scores) = env_resets
    /\ LastScore = SumSeq(r_rollout)

\* the slot of an episode is opened by the first policy call after its reset
SlotsOpened ==
  /\ InEpisode => Len(agent_scores) = env_resets - (IF env_t = 0 THEN 1 ELSE 0)
  /\ pc \in {"for", "done"} => Len(agent_scores) = env_resets

\* the last slot holds the rewards the policy has been shown
LastSlotIsSumOfObservedRewards ==
  /\ (pc = "check" \/ JustFlushed) => LastScore = SumSeq(r_rollout)
  /\ pc = "last" => LastScore = SumSeq(AllButLast(r_rollout))
  /\ (pc = "while" /\ env_t >= 1 /\ env_t <= ShortLen) =>
       LastScore = SumSeq(AllButLast(r_rollout))

\* a policy call opens a slot after a reset, and otherwise adds the reward of
\* the latest step to the last slot, once
PolicyCallAddsLatestReward ==
  (pc \in {"while", "last"} /\ calls' = calls + 1) =>
    IF env_t = 0
    THEN agent_scores' = Append(agent_scores, 0)
    ELSE /\ Len(agent_scores') = Len(agent_scores)
         /\ agent_scores' =
              [agent_scores EXCEPT ![Len(agent_scores)] = @ + r_rollout[Len(r_rollout)]]

NeverUpdatedWhileEmpty ==
  (agent_scores = <<>> /\ agent_scores' # agent_scores) => agent_scores' = <<0>>

ScoresOnlyChangeAtPolicyCalls ==
  calls' = calls => agent_scores' = agent_scores

\* C12: one score slot per reset, opened at the first policy call after the
\* reset; the last slot is the sum of the rewards of the steps since that reset
\* that the policy has been shown (all but the latest between steps, all of
\* them with the terminal one once the terminal step is handled), each counted
\* once; the list is never updated while empty.
C12_ScoreSlots ==
  /\ [](SlotsOpened /\ LastSlotIsSumOfObservedRewards)
  /\ [][PolicyCallAddsLatestReward /\ NeverUpdatedWhileEmpty
        /\ ScoresOnlyChangeAtPolicyCalls]_vars
\* the second episode has ended on a rewarded terminal step, now counted
C12_Witness ==
  /\ pc = "check" /\ Len(agent_scores) = 2 /\ env_resets = 2
  /\ Len(r_rollout) > EnoughData
  /\ r_rollout[Len(r_rollout)] = 1
  /\ LastScore = SumSeq(r_rollout) /\ LastScore > 1

----------------------------------------------------------------------------
(* The random source of the agent *)

Created == pc \notin {"idle", "start"}
NumSamplers == Len(agent_actions)

\* C13: one random source per run, seeded once: after k policy calls it has
\* advanced by exactly k * C draws from the seed (C the number of supported
\* channels), the draws of a call are taken in action-spec order, and a
\* reset, a discard or a flush leaves the source where it was.
C13_OneStream ==
  /\ [](Created =>
          /\ draws = calls * NumSamplers
          /\ rng = RngAt(agent_seed, calls * NumSamplers)
          /\ calls > 0 =>
               \A x \in 1..NumSamplers :
                 sampled[agent_actions[x].name] =
                   Gen(agent_actions[x], RngAt(agent_seed, (calls - 1) * NumSamplers + x)))
  /\ [][(env_resets' # env_resets \/ writes' # writes \/ pc = "check")
          => (rng' = rng /\ draws' = draws /\ calls' = calls)]_vars
\* two channels, a discard and a reset behind: the stream is at draw 2 * calls
C13_Witness ==
  /\ pc = "while" /\ env_resets = 2 /\ env_t = 1
  /\ NumSamplers = 2 /\ calls = ShortLen + 2
  /\ rng = RngAt(agent_seed, 2 * calls)
  /\ rng # RandomState(agent_seed)

----------------------------------------------------------------------------
(* Channels of an unsupported type *)

SpecChannels == 1..Len(action_spec)
NumSupported == Cardinality({x \in SpecChannels : Supported(action_spec[x])})

\* no sampler, no entry in a submitted action, no draw
SkippedChannelsAbsent ==
  Created =>
    /\ \A x \in SpecChannels :
         ~Supported(action_spec[x]) =>
           /\ action_spec[x].name \notin ChannelNames(agent_actions)
           /\ action_spec[x].name \notin DOMAIN action
    /\ draws = calls * NumSupported

SupportedChannelsPresent ==
  (Created /\ env_t > 0) =>
    \A x \in SpecChannels :
      Supported(action_spec[x]) => action_spec[x].name \in DOMAIN action

\* with the observation the loop reads present, a run is never aborted
SkippingDoesNotAbort == observation = "WORLD.RGB" => pc # "crashed"

\* C14: a channel of an unsupported type gets no sampler, is in no submitted
\* action and uses no draw; every supported channel is in every submitted
\* action; skipping a channel does not abort the run.
C14_UnsupportedChannelSkipped ==
  /\ SkippedChannelsAbsent
  /\ SupportedChannelsPresent
  /\ SkippingDoesNotAbort

----------------------------------------------------------------------------
(* The pool of the dispatcher (checked under SpecDispatcher) *)

Ended(k) == child[k].status \in {"exited", "crashed"}
Launched(k) == child[k].status = "none" /\ child'[k].status # "none"

\* C15: exactly one child is started for each thread index of 0..T-1, and the
\* dispatcher is done only when all T children have returned (so it is never
\* done while a child has not returned).
C15_OneChildPerThreadThenJoin ==
  /\ [](d_pc \in {"pool", "done"} =>
          /\ Threads = 0..(threads - 1)
          /\ \A k \in Threads : task[k].state = "queued" <=> ~Spawned(k))
  /\ [](d_pc = "done" =>
          \A k \in 0..(threads - 1) :
            Spawned(k) /\ Ended(k) /\ task[k].state = "returned")
  /\ [][\A k \in Threads :
          /\ Launched(k) => (task[k].state = "queued" /\ task'[k].state = "called")
          /\ Spawned(k) => /\ child'[k].status # "none"
                           /\ child'[k].status = "running" => child[k].status = "running"
                           /\ child'[k].args = child[k].args]_vars
\* the dispatcher has finished a run of MaxThreads threads
C15_Witness ==
  /\ d_pc = "done" /\ threads = MaxThreads
  /\ \A k \in 0..(MaxThreads - 1) : Spawned(k) /\ Ended(k)

\* C16: a child that fails is not started again and does not change what the
\* dispatcher does: its worker still reports True, the other threads are left
\* as they are, and the pool is joined all the same.
C16_CrashedChildIgnored ==
  /\ [](\A k \in Threads : task[k].state = "returned" => task[k].result = Some(TRUE))
  /\ []((d_pc = "pool" /\ \A k \in Threads : Ended(k) /\ task[k].state = "returned")
          => ENABLED PoolJoin)
  /\ [][\A k \in Threads :
          /\ child[k].status = "crashed" =>
               /\ child'[k] = child[k]
               /\ task'[k].state \in {"called", "returned"}
          /\ (child[k].status = "running" /\ child'[k].status = "crashed") =>
               \A j \in Threads \ {k} : child'[j] = child[j] /\ task'[j] = task[j]]_vars
\* the dispatcher is done although one child crashed and another ended well
C16_Witness ==
  /\ d_pc = "done"
  /\ \E j, k \in Threads : child[j].status = "crashed" /\ child[k].status = "exited"
  /\ \A k \in Threads : task[k].result = Some(TRUE)

----------------------------------------------------------------------------
(* The five buffers of an episode *)

PerStepLengths(n) ==
  /\ Len(s_rollout) = n /\ Len(r_rollout) = n
  /\ Len(d_rollout) = n /\ Len(t_rollout) = n
TerminalHandled == pc = "check" \/ (pc \in {"for", "done"} /\ i > 0)

\* the lengths: all equal to the steps since the reset, the actions one more
\* exactly when the terminal step has been handled
BufferLengths ==
  /\ pc \in {"while", "last"} => (PerStepLengths(env_t) /\ Len(a_rollout) = env_t)
  /\ TerminalHandled => (PerStepLengths(env_t) /\ Len(a_rollout) = env_t + 1)
  /\ (pc # "crashed" /\ Len(a_rollout) # Len(s_rollout)) =>
       (TerminalHandled /\ env_state = "ended")

\* the newest entry of each buffer comes from the step just taken
NewestEntries ==
  (pc \in {"while", "last"} /\ env_t >= 1) =>
    /\ s_rollout[env_t] = timestep.observation["WORLD.RGB"]
    /\ s_rollout[env_t] = reset_frame + env_t
    /\ r_rollout[env_t] = timestep.reward[1]
    /\ r_rollout[env_t] = EnvReward(env_seed, s_rollout[env_t], action)
    /\ d_rollout[env_t] = timestep.discount[1]
    /\ t_rollout[env_t] = timestep.step_type
    /\ a_rollout[env_t] = action["MOVE"]

\* at the end of an episode, kept or not, entry k of every buffer is of step k
EntriesOfTheSameStep ==
  pc = "check" =>
    \A k \in 1..env_t :
      /\ s_rollout[k] = reset_frame + k
      /\ r_rollout[k] = EnvReward(env_seed, s_rollout[k], "MOVE" :> a_rollout[k])
      /\ d_rollout[k] = (IF k = env_t THEN 0 ELSE 1)
      /\ t_rollout[k] = (IF k = env_t THEN LAST ELSE MID)

\* C17: between the steps of the loop the five buffers have the same length,
\* the number of steps since the last reset, and entry k of each comes from
\* step k; the actions buffer is longer, by exactly one, only once a terminal
\* step has been handled.
C17_BuffersAligned == BufferLengths /\ NewestEntries /\ EntriesOfTheSameStep
\* the terminal step of a second episode of 1000 steps has been handled
C17_Witness ==
  /\ pc = "check" /\ env_resets = 2 /\ env_t = EnoughData
  /\ PerStepLengths(EnoughData) /\ Len(a_rollout) = EnoughData + 1
  /\ s_rollout[1] = reset_frame + 1 /\ reset_frame > 1

----------------------------------------------------------------------------
(* Calls on the simulation *)

EnvCalled == env_frame' # env_frame
EnvIsReset == env_resets' = env_resets + 1 /\ env_t' = 0 /\ env_state' = "running"
EnvIsStep == env_resets' = env_resets /\ env_t' = env_t + 1

\* C18: the first call on the simulation is a reset, a step is only taken in
\* an episode that has been reset and has not ended, and after a terminal step
\* the next call is a reset, or there is none.
C18_NeverStepsFinishedEpisode ==
  /\ [](/\ pc = "while" => env_state = "running"
        /\ pc \in {"last", "check"} => env_state = "ended"
        /\ pc = "done" => env_state \in {"created", "ended"})
  /\ [][EnvCalled =>
          /\ EnvIsReset \/ EnvIsStep
          /\ env_state = "created" => (EnvIsReset /\ env_resets' = 1)
          /\ env_state = "ended" => EnvIsReset
          /\ EnvIsStep => (env_state = "running" /\ env_resets >= 1)]_vars
\* a step of the third episode, after a discarded and a kept one
C18_Witness ==
  /\ pc = "while" /\ env_state = "running"
  /\ env_resets = 3 /\ i = 1 /\ env_t = 1
  /\ timestep.step_type = MID

----------------------------------------------------------------------------
(* The entry appended at a terminal step *)

LastTwoEqual(a) == Len(a) >= 2 /\ a[Len(a)] = a[Len(a) - 1]

\* C19: the entry appended at a terminal step repeats the MOVE value already
\* submitted, so every saved actions array ends with two equal entries; the
\* action sampled at that step is neither recorded nor submitted, and it
\* advances the random stream by one draw per supported channel.
C19_TerminalEntryDuplicatesSubmitted ==
  /\ [](/\ \A p \in DOMAIN files : LastTwoEqual(files[p].actions)
        /\ pc = "check" => /\ LastTwoEqual(a_rollout)
                           /\ a_rollout[Len(a_rollout)] = action["MOVE"])
  /\ [][pc = "last" =>
          /\ a_rollout[Len(a_rollout)] = action["MOVE"]
          /\ a_rollout' = Append(a_rollout, action["MOVE"])
          /\ action' = action
          /\ UNCHANGED <<envVars, timestep>>
          /\ rng' = RngAt(agent_seed, (calls + 1) * NumSamplers)
          /\ rng' # rng]_vars
\* an archive is saved whose last entry is not the action sampled at the end
C19_Witness ==
  /\ JustFlushed
  /\ LastTwoEqual(LastArchive.actions)
  /\ sampled["MOVE"] # LastArchive.actions[Len(LastArchive.actions)]
  /\ action["MOVE"] = LastArchive.actions[Len(LastArchive.actions)]

====
